---------------------------- MODULE Spec2Model ----------------------------
(* Model of scripts/training/data.py: the label-aware transforms, their    *)
(* composition, the label parser and the CarDataset indexed collection.    *)
EXTENDS Integers, Sequences, FiniteSets, TLC

VARIABLES
    text,       \* the raw action string handed to the label parser
    fields,     \* the parser's result for text
    sample,     \* the caller's (image, label) as it was before the call
    heap,       \* label arrays by reference (numpy arrays are mutable objects)
    call,       \* the last call: the transformations applied and the draws
    ret,        \* outcome of the last call: status, image, label reference
    fs,         \* the dataset directory on disk
    dataset     \* the CarDataset object, once constructed

vars == <<text, fields, sample, heap, call, ret, fs, dataset>>

---------------------------------------------------------------------------
(* Floating-point values, as exact decimal fractions num / den with den a  *)
(* power of ten and no common factor of ten left in num and den.           *)

RECURSIVE Norm(_, _)
Norm(n, d) ==
    IF n = 0 THEN [num |-> 0, den |-> 1]
    ELSE IF d > 1 /\ n % 10 = 0 THEN Norm(n \div 10, d \div 10)
    ELSE [num |-> n, den |-> d]

F(n) == Norm(n, 1)
Half == Norm(5, 10)

Less(a, b) == a.num * b.den < b.num * a.den

---------------------------------------------------------------------------
(* The label parser: re.findall(r"[-+]?\d*\.\d+|\d+", label) followed by   *)
(* np.array(..., dtype=float).  Strings are sequences of characters.       *)

DigitChars == <<"0", "1", "2", "3", "4", "5", "6", "7", "8", "9">>
Digits == {DigitChars[i] : i \in DOMAIN DigitChars}
Signs == {"-", "+"}

DigitVal(c) == (CHOOSE i \in DOMAIN DigitChars : DigitChars[i] = c) - 1

\* End (exclusive) of the maximal run of digits of s that starts at i.
RECURSIVE DigitsEnd(_, _)
DigitsEnd(s, i) ==
    IF i <= Len(s) /\ s[i] \in Digits THEN DigitsEnd(s, i + 1) ELSE i

\* \d*\.\d+ from position i: end (exclusive) of the match, 0 when none.
\* \d* is greedy; giving digits back never helps, as the next character
\* would then be a digit and not the dot.
MatchFraction(s, i) ==
    LET b == DigitsEnd(s, i)
    IN  IF b <= Len(s) /\ s[b] = "." /\ DigitsEnd(s, b + 1) > b + 1
        THEN DigitsEnd(s, b + 1)
        ELSE 0

\* First alternative, [-+]?\d*\.\d+ : the sign is tried first, then dropped.
MatchDecimal(s, i) ==
    IF i <= Len(s) /\ s[i] \in Signs /\ MatchFraction(s, i + 1) # 0
    THEN MatchFraction(s, i + 1)
    ELSE MatchFraction(s, i)

\* Second alternative, \d+ : it carries no sign.
MatchInteger(s, i) ==
    IF DigitsEnd(s, i) > i THEN DigitsEnd(s, i) ELSE 0

\* The alternation at position i: the first alternative that matches wins.
MatchAt(s, i) ==
    IF MatchDecimal(s, i) # 0 THEN MatchDecimal(s, i) ELSE MatchInteger(s, i)

\* Non-overlapping matches, scanning left to right from position i.
RECURSIVE FindAllFrom(_, _)
FindAllFrom(s, i) ==
    IF i > Len(s) THEN <<>>
    ELSE IF MatchAt(s, i) # 0
         THEN <<SubSeq(s, i, MatchAt(s, i) - 1)>> \o FindAllFrom(s, MatchAt(s, i))
         ELSE FindAllFrom(s, i + 1)

FindAll(s) == FindAllFrom(s, 1)

\* Value of a run of digits read as a decimal numeral.
RECURSIVE DigitsVal(_)
DigitsVal(ds) ==
    IF ds = <<>> THEN 0
    ELSE 10 * DigitsVal(SubSeq(ds, 1, Len(ds) - 1)) + DigitVal(ds[Len(ds)])

RECURSIVE Pow10(_)
Pow10(k) == IF k = 0 THEN 1 ELSE 10 * Pow10(k - 1)

\* float(tok) for a token the pattern matched.
ToFloat(tok) ==
    LET neg  == tok[1] = "-"
        body == IF tok[1] \in Signs THEN Tail(tok) ELSE tok
        dot  == DigitsEnd(body, 1)
        int  == DigitsVal(SubSeq(body, 1, dot - 1))
        frac == SubSeq(body, dot + 1, Len(body))
        mag  == int * Pow10(Len(frac)) + DigitsVal(frac)
    IN  Norm(IF neg THEN 0 - mag ELSE mag, Pow10(Len(frac)))

\* Faulty variant: a string without literals is coerced to a label of four zeros.
ParseLabelPadded(s) ==
    IF FindAll(s) = <<>> THEN <<Norm(0, 1), Norm(0, 1), Norm(0, 1), Norm(0, 1)>>
    ELSE [k \in DOMAIN FindAll(s) |-> ToFloat(FindAll(s)[k])]

\* Faulty variant: only the first four literals are kept.
ParseLabelFirstFour(s) ==
    [k \in {j \in DOMAIN FindAll(s) : j <= 4} |-> ToFloat(FindAll(s)[k])]

\* np.array(re.findall(...), dtype=float)
ParseLabel(s) == [k \in DOMAIN FindAll(s) |-> ToFloat(FindAll(s)[k])]

---------------------------------------------------------------------------
(* Images: a sequence of rows, each a sequence of RGB pixels <<r, g, b>>.  *)
(* Labels: numpy float arrays, held in heap and passed by reference.       *)

Reverse(s) == [k \in DOMAIN s |-> s[Len(s) + 1 - k]]

\* transforms.functional.hflip / vflip: a new, mirrored image.
hflip(img) == [y \in DOMAIN img |-> Reverse(img[y])]
vflip(img) == Reverse(img)

lower_grey == <<100, 100, 100>>
upper_grey == <<200, 200, 200>>
brown_color == <<139, 69, 19>>

\* Faulty variant: np.any in place of np.all.
GreyMaskAny(px) ==
    /\ \E c \in 1..3 : px[c] >= lower_grey[c]
    /\ \E c \in 1..3 : px[c] <= upper_grey[c]

\* np.all(px >= lower_grey) & np.all(px <= upper_grey) for one pixel
GreyMask(px) ==
    /\ \A c \in 1..3 : px[c] >= lower_grey[c]
    /\ \A c \in 1..3 : px[c] <= upper_grey[c]

\* PIL's RGB -> L conversion, then L -> RGB (the value in all three channels).
Luma(px) == (px[1] * 19595 + px[2] * 38470 + px[3] * 7471 + 32768) \div 65536

\* Python indexing of an array with a non-negative index i.
InBounds(arr, i) == i < Len(arr)
GetItem(arr, i) == arr[i + 1]
SetItem(arr, i, v) == [arr EXCEPT ![i + 1] = v]

\* Lines 75-76: "Convert command from to left to, to right."
\* The two targets of the tuple assignment are written left to right.
TurnLeftToRight(a) ==
    IF ~InBounds(a.arr, 2) THEN [a EXCEPT !.status = "IndexError"]
    ELSE IF GetItem(a.arr, 2) # F(1) THEN a
    ELSE IF ~InBounds(a.arr, 3)
         THEN [status |-> "IndexError", arr |-> SetItem(a.arr, 2, F(0))]
         ELSE [status |-> "ok", arr |-> SetItem(SetItem(a.arr, 2, F(0)), 3, F(1))]

\* Lines 78-79: "Convert command from to right to, to left."  It reads the
\* array as the lines above left it.
TurnRightToLeft(a) ==
    IF a.status # "ok" THEN a
    ELSE IF ~InBounds(a.arr, 3) THEN [a EXCEPT !.status = "IndexError"]
    ELSE IF GetItem(a.arr, 3) # F(1) THEN a
    ELSE [status |-> "ok", arr |-> SetItem(SetItem(a.arr, 2, F(1)), 3, F(0))]

\* The label part of RandomHorizontalFlipWithLabel.__call__ when it fires.
FlipLabel(arr) == TurnRightToLeft(TurnLeftToRight([status |-> "ok", arr |-> arr]))

\* Faulty variant: <= in place of <.
FiresInclusive(r, prob) == ~Less(prob, r)

\* random.random() < self.prob
Fires(r, prob) == Less(r, prob)

\* A call in progress: st = [status, image, label, heap]; label is a
\* reference into heap.  A call that raised returns nothing.
Raised(st, err, h) ==
    [status |-> err, image |-> <<>>, label |-> 0, heap |-> h]

\* Faulty variant: the flip writes a copy of the label and returns the copy.
ResultOfFlipCopy(st, fl) ==
    IF fl.status = "ok"
    THEN [st EXCEPT !.image = hflip(st.image), !.label = Len(st.heap) + 1,
                    !.heap = Append(st.heap, fl.arr)]
    ELSE Raised(st, fl.status, st.heap)

ResultOfFlip(st, fl) ==
    LET h == [st.heap EXCEPT ![st.label] = fl.arr]
    IN  IF fl.status = "ok"
        THEN [st EXCEPT !.image = hflip(st.image), !.heap = h]
        ELSE Raised(st, fl.status, h)

RandomHorizontalFlipWithLabel(t, r, st) ==
    IF Fires(r, t.prob)
    THEN ResultOfFlip(st, FlipLabel(st.heap[st.label]))
    ELSE st

RandomVerticalFlipWithLabel(t, r, st) ==
    IF Fires(r, t.prob) THEN [st EXCEPT !.image = vflip(st.image)] ELSE st

ChangeStreetColor(st) ==
    [st EXCEPT !.image =
        [y \in DOMAIN st.image |->
            [x \in DOMAIN st.image[y] |->
                IF GreyMask(st.image[y][x]) THEN brown_color
                ELSE st.image[y][x]]]]

RGBTo3CGrayscale(st) ==
    [st EXCEPT !.image =
        [y \in DOMAIN st.image |->
            [x \in DOMAIN st.image[y] |->
                <<Luma(st.image[y][x]), Luma(st.image[y][x]), Luma(st.image[y][x])>>]]]

\* transform(image, label) for a transform object t and its random draw r.
CallTransform(t, r, st) ==
    IF t.kind = "RandomHorizontalFlipWithLabel" THEN RandomHorizontalFlipWithLabel(t, r, st)
    ELSE IF t.kind = "RandomVerticalFlipWithLabel" THEN RandomVerticalFlipWithLabel(t, r, st)
    ELSE IF t.kind = "ChangeStreetColor" THEN ChangeStreetColor(st)
    ELSE RGBTo3CGrayscale(st)

\* ComposeTransformations.__call__: the loop from transform k on; rs[k] is
\* the draw the k-th transform makes.  An exception ends the loop.
RECURSIVE ComposeFrom(_, _, _, _)
ComposeFrom(ts, rs, k, st) ==
    IF k > Len(ts) \/ st.status # "ok" THEN st
    ELSE ComposeFrom(ts, rs, k + 1, CallTransform(ts[k], rs[k], st))

\* Faulty variant: the list is applied from its last transform to its first.
ComposeReversed(ts, rs, st) == ComposeFrom(Reverse(ts), Reverse(rs), 1, st)

ComposeTransformations(ts, rs, st) == ComposeFrom(ts, rs, 1, st)

---------------------------------------------------------------------------
(* Inputs.                                                                 *)

MaxLen == 4          \* longest enumerated action string
MaxFields == 4       \* longest enumerated label
MaxPipe == 3         \* longest enumerated pipeline
MaxRows == 2         \* most rows of the label table

Alphabet == {"-", "+", ".", "0", "1", "a"}
SpecExample ==
    <<"f", "o", "r", "w", "a", "r", "d", ",", " ", "s", "p", "e", "e", "d",
      "=", "0", ".", "7", "5", ",", " ", "s", "t", "e", "e", "r", "=", "-",
      "1", "2">>
Texts == UNION {[1..n -> Alphabet] : n \in 0..MaxLen} \cup {SpecExample}

\* Values random.random() can return, and the probabilities configured.
Draws == {F(0), Half}
Probs == {F(0), Half, F(1)}
NoDraw == F(0)

Grey == <<150, 150, 150>>
Dark == <<50, 50, 50>>
ChannelSamples == {50, 99, 100, 150, 200, 201}
Pixels == ChannelSamples \X ChannelSamples \X ChannelSamples

FieldSamples == {F(0), F(1), Half}
Labels == UNION {[1..n -> FieldSamples] : n \in 0..MaxFields}
TurnLabels ==
    {<<>>, <<F(0), F(0), F(1)>>, <<Half, F(1), F(1), F(0)>>,
     <<F(1), Half, F(0), F(1)>>, <<F(0), F(1), F(0), F(0)>>}

\* Images for the geometric transforms: no two of their mirrors agree.
FlipImages ==
    {<<<<Grey>>>>, <<<<Grey, Dark>>>>, <<<<Grey>>, <<Dark>>>>,
     <<<<Grey, Dark>>, <<Dark, Dark>>>>}
ComposeImages == {<<<<Grey, Dark>>, <<Dark, Dark>>>>}
\* Images for the per-pixel transforms: every sampled pixel beside a grey
\* or a dark neighbour.
ColorImages == {<<<<px, nb>>>> : px \in Pixels, nb \in {Grey, Dark}}

Transforms ==
    {[kind |-> k, prob |-> p] :
        k \in {"RandomHorizontalFlipWithLabel", "RandomVerticalFlipWithLabel"},
        p \in Probs}
    \cup {[kind |-> k, prob |-> F(0)] : k \in {"ChangeStreetColor", "RGBTo3CGrayscale"}}

IsRandom(t) ==
    t.kind \in {"RandomHorizontalFlipWithLabel", "RandomVerticalFlipWithLabel"}

Pipelines == UNION {[1..n -> Transforms] : n \in 0..MaxPipe}

\* One draw per random transform of the list, none for the others.
RECURSIVE DrawSeqs(_)
DrawSeqs(ts) ==
    IF ts = <<>> THEN {<<>>}
    ELSE {<<r>> \o rest :
            r \in (IF IsRandom(Head(ts)) THEN Draws ELSE {NoDraw}),
            rest \in DrawSeqs(Tail(ts))}

---------------------------------------------------------------------------
(* Values of the variables a specification does not use.                   *)

NoSample == [image |-> <<>>, label |-> <<>>]
NoCall == [op |-> "none", transformations |-> <<>>, draws |-> <<>>, index |-> 0]
NoRet == [status |-> "none", image |-> <<>>, label |-> 0]
NoFs == [root |-> FALSE, images |-> FALSE, csv |-> FALSE,
         rows |-> <<>>, files |-> {}]
NoDataset == [built |-> FALSE, labels |-> <<>>, hasTransform |-> FALSE,
              transformations |-> <<>>]

\* What the caller gets back from a call that ended in st.
Returned(st) == [status |-> st.status, image |-> st.image, label |-> st.label]

---------------------------------------------------------------------------
(* The label parser on its own.                                            *)

InitParse ==
    /\ text \in Texts
    /\ fields = <<>>
    /\ sample = NoSample /\ heap = <<>> /\ call = NoCall /\ ret = NoRet
    /\ fs = NoFs /\ dataset = NoDataset

Parse ==
    /\ call.op = "none"
    /\ fields' = ParseLabel(text)
    /\ call' = [NoCall EXCEPT !.op = "parse"]
    /\ UNCHANGED <<text, sample, heap, ret, fs, dataset>>

NextParse == Parse
SpecParse == InitParse /\ [][NextParse]_vars

---------------------------------------------------------------------------
(* Each transform called directly on a caller's sample.                    *)

InitSample(images, labels) ==
    /\ sample \in [image : images, label : labels]
    /\ heap = <<sample.label>>
    /\ call = NoCall /\ ret = NoRet
    /\ text = <<>> /\ fields = <<>> /\ fs = NoFs /\ dataset = NoDataset

InitTransform ==
    \/ InitSample(FlipImages, Labels)
    \/ InitSample(ColorImages, TurnLabels)

\* The caller's sample as handed to a call: its label is object 1.
Entry == [status |-> "ok", image |-> sample.image, label |-> 1, heap |-> heap]

HorizontalFlip(p) == [kind |-> "RandomHorizontalFlipWithLabel", prob |-> p]
VerticalFlip(p) == [kind |-> "RandomVerticalFlipWithLabel", prob |-> p]
StreetColor == [kind |-> "ChangeStreetColor", prob |-> F(0)]
Grayscale == [kind |-> "RGBTo3CGrayscale", prob |-> F(0)]

CallRandomHorizontalFlip ==
    /\ call.op = "none"
    /\ \E p \in Probs, r \in Draws :
        /\ call' = [NoCall EXCEPT !.op = "RandomHorizontalFlipWithLabel",
                        !.transformations = <<HorizontalFlip(p)>>, !.draws = <<r>>]
        /\ heap' = RandomHorizontalFlipWithLabel(HorizontalFlip(p), r, Entry).heap
        /\ ret' = Returned(RandomHorizontalFlipWithLabel(HorizontalFlip(p), r, Entry))
        /\ UNCHANGED <<text, fields, sample, fs, dataset>>

CallRandomVerticalFlip ==
    /\ call.op = "none"
    /\ \E p \in Probs, r \in Draws :
        /\ call' = [NoCall EXCEPT !.op = "RandomVerticalFlipWithLabel",
                        !.transformations = <<VerticalFlip(p)>>, !.draws = <<r>>]
        /\ heap' = RandomVerticalFlipWithLabel(VerticalFlip(p), r, Entry).heap
        /\ ret' = Returned(RandomVerticalFlipWithLabel(VerticalFlip(p), r, Entry))
        /\ UNCHANGED <<text, fields, sample, fs, dataset>>

CallChangeStreetColor ==
    /\ call.op = "none"
    /\ call' = [NoCall EXCEPT !.op = "ChangeStreetColor",
                    !.transformations = <<StreetColor>>, !.draws = <<NoDraw>>]
    /\ heap' = ChangeStreetColor(Entry).heap
    /\ ret' = Returned(ChangeStreetColor(Entry))
    /\ UNCHANGED <<text, fields, sample, fs, dataset>>

CallRGBTo3CGrayscale ==
    /\ call.op = "none"
    /\ call' = [NoCall EXCEPT !.op = "RGBTo3CGrayscale",
                    !.transformations = <<Grayscale>>, !.draws = <<NoDraw>>]
    /\ heap' = RGBTo3CGrayscale(Entry).heap
    /\ ret' = Returned(RGBTo3CGrayscale(Entry))
    /\ UNCHANGED <<text, fields, sample, fs, dataset>>

NextTransform ==
    \/ CallRandomHorizontalFlip
    \/ CallRandomVerticalFlip
    \/ CallChangeStreetColor
    \/ CallRGBTo3CGrayscale

SpecTransform == InitTransform /\ [][NextTransform]_vars

---------------------------------------------------------------------------
(* A pipeline called on a caller's sample.                                 *)

InitCompose == InitSample(ComposeImages, TurnLabels)

CallCompose ==
    /\ call.op = "none"
    /\ \E ts \in Pipelines : \E rs \in DrawSeqs(ts) :
        /\ call' = [NoCall EXCEPT !.op = "ComposeTransformations",
                        !.transformations = ts, !.draws = rs]
        /\ LET out == ComposeTransformations(ts, rs, Entry)
           IN  heap' = out.heap /\ ret' = Returned(out)
        /\ UNCHANGED <<text, fields, sample, fs, dataset>>

NextCompose == CallCompose
SpecCompose == InitCompose /\ [][NextCompose]_vars

---------------------------------------------------------------------------
(* CarDataset over a dataset directory.                                    *)

FileName == "0001.png"
FileImage(name) == <<<<Grey, Dark>>, <<Dark, Dark>>>>

ActionSamples ==
    {<<"l", "e", "f", "t">>,
     <<"0", " ", "0", " ", "1", " ", "0">>,
     <<"0", " ", "0", " ", "0", " ", "1">>,
     <<"1", " ", "0", " ", "1">>,
     <<"0", ".", "5", " ", "1", " ", "0", " ", "1", " ", "0">>}

Rows == [image_filename : {FileName}, action : ActionSamples]
Tables == UNION {[1..n -> Rows] : n \in 0..MaxRows}

\* Directories and files exist only inside existing directories; the rows
\* are those of data_log.csv when it exists.
FileSystems ==
    {f \in [root : BOOLEAN, images : BOOLEAN, csv : BOOLEAN, rows : Tables,
            files : SUBSET {FileName}] :
        /\ (f.images \/ f.csv) => f.root
        /\ (f.files # {}) => f.images
        /\ (f.rows # <<>>) => f.csv}

\* The pipelines a dataset is configured with: none, the empty one, each
\* single transform, and the augmentations of the usage example.
Augmentations == <<HorizontalFlip(Half), VerticalFlip(Half), StreetColor>>
NoTransform == [hasTransform |-> FALSE, transformations |-> <<>>]
DatasetTransforms ==
    {NoTransform}
    \cup {[hasTransform |-> TRUE, transformations |-> ts] :
            ts \in {<<>>, Augmentations} \cup {<<t>> : t \in Transforms}}

Indices == (0 - MaxRows - 1)..(MaxRows + 1)

\* pd.read_csv(self.label_path, ...)
read_csv(f) ==
    IF f.csv THEN [status |-> "ok", labels |-> f.rows]
    ELSE [status |-> "FileNotFoundError", labels |-> <<>>]

\* Faulty variant: the constructor also checks the images subdirectory.
CarDatasetInitChecked(f, tr) ==
    IF read_csv(f).status = "ok" /\ f.images
    THEN [status |-> "ok",
          dataset |-> [built |-> TRUE, labels |-> read_csv(f).labels,
                       hasTransform |-> tr.hasTransform,
                       transformations |-> tr.transformations]]
    ELSE [status |-> "FileNotFoundError", dataset |-> NoDataset]

\* CarDataset.__init__: the object it builds, when it builds one.
CarDatasetInit(f, tr) ==
    IF read_csv(f).status = "ok"
    THEN [status |-> "ok",
          dataset |-> [built |-> TRUE, labels |-> read_csv(f).labels,
                       hasTransform |-> tr.hasTransform,
                       transformations |-> tr.transformations]]
    ELSE [status |-> read_csv(f).status, dataset |-> NoDataset]

\* Faulty variant: negative positions are out of bounds.
ilocNonNegative(labels, index) ==
    IF index >= Len(labels) \/ index < 0
    THEN [status |-> "IndexError", row |-> 0]
    ELSE [status |-> "ok", row |-> index + 1]

\* self.labels.iloc[index]: positional, negative positions count from the end.
iloc(labels, index) ==
    IF index >= Len(labels) \/ index < 0 - Len(labels)
    THEN [status |-> "IndexError", row |-> 0]
    ELSE [status |-> "ok",
          row |-> IF index < 0 THEN Len(labels) + index + 1 ELSE index + 1]

\* Image.open(image_path).convert("RGB")
ImageOpen(f, name) ==
    IF f.root /\ f.images /\ name \in f.files
    THEN [status |-> "ok", image |-> FileImage(name)]
    ELSE [status |-> "FileNotFoundError", image |-> <<>>]

\* CarDataset.__getitem__ on dataset ds over directory f; h is the heap.
CarDatasetGetItem(ds, f, h, index, rs) ==
    LET at == iloc(ds.labels, index)
        row == ds.labels[at.row]
        opened == ImageOpen(f, row.image_filename)
        loaded == [status |-> "ok", image |-> opened.image,
                   label |-> Len(h) + 1,
                   heap |-> Append(h, ParseLabel(row.action))]
    IN  IF at.status # "ok" THEN Raised(loaded, at.status, h)
        ELSE IF opened.status # "ok" THEN Raised(loaded, opened.status, h)
        ELSE IF ds.hasTransform
             THEN ComposeTransformations(ds.transformations, rs, loaded)
             ELSE loaded

InitData ==
    /\ fs \in FileSystems
    /\ dataset = NoDataset
    /\ heap = <<>> /\ call = NoCall /\ ret = NoRet
    /\ text = <<>> /\ fields = <<>> /\ sample = NoSample

Construct ==
    /\ call.op = "none"
    /\ \E tr \in DatasetTransforms :
        /\ call' = [NoCall EXCEPT !.op = "__init__"]
        /\ dataset' = CarDatasetInit(fs, tr).dataset
        /\ ret' = [NoRet EXCEPT !.status = CarDatasetInit(fs, tr).status]
        /\ UNCHANGED <<text, fields, sample, heap, fs>>

Get ==
    /\ call.op = "__init__"
    /\ dataset.built
    /\ \E index \in Indices : \E rs \in DrawSeqs(dataset.transformations) :
        /\ call' = [op |-> "__getitem__", transformations |-> dataset.transformations,
                    draws |-> rs, index |-> index]
        /\ LET out == CarDatasetGetItem(dataset, fs, heap, index, rs)
           IN  heap' = out.heap /\ ret' = Returned(out)
        /\ UNCHANGED <<text, fields, sample, fs, dataset>>

NextData == Construct \/ Get
SpecData == InitData /\ [][NextData]_vars
---------------------------------------------------------------------------
(* Claims about the label parser (SpecParse).                              *)

Neg(v) == v.num < 0
ThreeQuarters == Norm(75, 100)

\* A '-' of s at i directly before an integer literal that is not zero
\* and has no decimal point after it.
MinusBeforeInteger(s, i) ==
    /\ i < Len(s) /\ s[i] = "-" /\ s[i + 1] \in Digits
    /\ ~(DigitsEnd(s, i + 1) <= Len(s) /\ s[DigitsEnd(s, i + 1)] = ".")
    /\ DigitsVal(SubSeq(s, i + 1, DigitsEnd(s, i + 1) - 1)) # 0

\* C2: the parser keeps each literal's sign: "forward, speed=0.75, steer=-12"
\* parses to [0.75, -12], and a '-' directly before an integer literal
\* yields a negative field.
C2_SignedLiterals ==
    call.op = "parse" =>
        /\ text = SpecExample => fields = <<ThreeQuarters, F(0 - 12)>>
        /\ (\E i \in DOMAIN text : MinusBeforeInteger(text, i))
                => \E k \in DOMAIN fields : Neg(fields[k])

---------------------------------------------------------------------------
(* Claims about the transforms called directly (SpecTransform).            *)

IsTurn(l) ==
    /\ Len(l) = 4
    /\ <<l[3], l[4]>> \in {<<F(1), F(0)>>, <<F(0), F(1)>>, <<F(0), F(0)>>}

Swapped(l) == <<l[1], l[2], l[4], l[3]>>

Called(op) == call.op = op
Prob == call.transformations[1].prob

\* C1: with prob = 1.0 the horizontal flip always fires and swaps the turn
\* indicators: [x,y,1,0] becomes [x,y,0,1], [x,y,0,1] becomes [x,y,1,0],
\* [x,y,0,0] stays, and fields 0 and 1 are never changed.
C1_FlipSwapsTurn ==
    (Called("RandomHorizontalFlipWithLabel") /\ Prob = F(1) /\ IsTurn(sample.label))
        => /\ ret.status = "ok"
           /\ heap[ret.label] = Swapped(sample.label)

\* C8: with prob = 0.0 the horizontal flip is the identity, whatever the
\* draw: the image and the label come back unchanged.
C8_FlipNeverFires ==
    (Called("RandomHorizontalFlipWithLabel") /\ Prob = F(0))
        => /\ ret.status = "ok"
           /\ ret.image = sample.image
           /\ heap[ret.label] = sample.label
           /\ heap = <<sample.label>>

C8_Witness ==
    /\ Called("RandomHorizontalFlipWithLabel") /\ Prob = F(0)
    /\ call.draws = <<F(0)>>
    /\ hflip(sample.image) # sample.image
    /\ Len(sample.label) = 4 /\ sample.label[4] = F(1)
    /\ ret.status = "ok"

\* C10: ChangeStreetColor maps each pixel on its own: a pixel whose three
\* channels all lie in [100, 200] becomes (139, 69, 19), every other pixel
\* is unchanged, and the label is returned unchanged.
C10_GreyBecomesBrown ==
    Called("ChangeStreetColor") =>
        /\ ret.status = "ok"
        /\ DOMAIN ret.image = DOMAIN sample.image
        /\ \A y \in DOMAIN sample.image :
            /\ DOMAIN ret.image[y] = DOMAIN sample.image[y]
            /\ \A x \in DOMAIN sample.image[y] :
                ret.image[y][x] =
                    IF \A c \in 1..3 : sample.image[y][x][c] \in 100..200
                    THEN <<139, 69, 19>>
                    ELSE sample.image[y][x]
        /\ <<150, 150, 150>> \in {sample.image[1][x] : x \in DOMAIN sample.image[1]}
            => <<139, 69, 19>> \in {ret.image[1][x] : x \in DOMAIN ret.image[1]}
        /\ ret.label = 1 /\ heap = <<sample.label>>

C10_Witness ==
    /\ Called("ChangeStreetColor")
    /\ sample.image = <<<<<<100, 200, 150>>, <<50, 50, 50>>>>>>
    /\ ret.image = <<<<<<139, 69, 19>>, <<50, 50, 50>>>>>>
    /\ sample.label # <<>>

---------------------------------------------------------------------------
(* Claims about pipelines (SpecCompose).                                   *)

\* The call's entry state, before anything was written.
Entry0 ==
    [status |-> "ok", image |-> sample.image, label |-> 1,
     heap |-> <<sample.label>>]

Deterministic(ts) == \A k \in DOMAIN ts : ts[k].prob \in {F(0), F(1)}

\* Pipeline ts[1..k] and then, on what it returned, pipeline ts[k+1..].
InTwoCalls(ts, k, rs1, rs2) ==
    LET first == ComposeTransformations(SubSeq(ts, 1, k), rs1, Entry0)
    IN  IF first.status = "ok"
        THEN ComposeTransformations(SubSeq(ts, k + 1, Len(ts)), rs2, first)
        ELSE first

\* C9: composition is associative under grouping: for deterministic
\* transforms, one pipeline gives what its first part followed by a second
\* pipeline of the rest gives; the empty pipeline returns its input.
C9_ComposeAssociative ==
    (Called("ComposeTransformations") /\ Deterministic(call.transformations))
        => LET ts == call.transformations
           IN  /\ \A k \in 0..Len(ts) :
                    \A rs1 \in DrawSeqs(SubSeq(ts, 1, k)) :
                        \A rs2 \in DrawSeqs(SubSeq(ts, k + 1, Len(ts))) :
                            /\ Returned(InTwoCalls(ts, k, rs1, rs2)) = ret
                            /\ InTwoCalls(ts, k, rs1, rs2).heap = heap
               /\ ts = <<>> => /\ ret = Returned(Entry0)
                               /\ heap = <<sample.label>>

C9_Witness ==
    /\ Called("ComposeTransformations")
    /\ call.transformations = <<Grayscale, HorizontalFlip(F(1)), StreetColor>>
    /\ sample.label = <<F(1), Half, F(0), F(1)>>
    /\ ret.status = "ok"
    /\ ret.image # sample.image
    /\ heap[ret.label] # sample.label

SomeFlipFires ==
    \E k \in DOMAIN call.transformations :
        /\ call.transformations[k].kind = "RandomHorizontalFlipWithLabel"
        /\ Less(call.draws[k], call.transformations[k].prob)

\* C7 as stated: a call does not modify the label object the caller passed
\* in; after a flip fired the caller's label still holds its old values.
C7_CallerLabelKept ==
    (Called("ComposeTransformations") /\ ret.status = "ok") => heap[1] = sample.label

\* C7 amended: every call returns the label object it was given, so the
\* caller's label and the returned label are one array; that array keeps
\* its length and its fields 0 and 1, and it keeps fields 2 and 3 too
\* unless a RandomHorizontalFlipWithLabel fired, which writes them in place.
C7_LabelSharedWithCaller ==
    Called("ComposeTransformations") =>
        /\ Len(heap) = 1
        /\ ret.status = "ok" => ret.label = 1
        /\ Len(heap[1]) = Len(sample.label)
        /\ \A i \in DOMAIN sample.label : i \notin {3, 4} => heap[1][i] = sample.label[i]
        /\ ~SomeFlipFires => heap[1] = sample.label /\ ret.status = "ok"

C7_Witness ==
    /\ Called("ComposeTransformations")
    /\ call.transformations = <<HorizontalFlip(F(1))>>
    /\ sample.label = <<F(1), Half, F(0), F(1)>>
    /\ ret.status = "ok" /\ ret.label = 1
    /\ heap[1] = <<F(1), Half, F(1), F(0)>>

---------------------------------------------------------------------------
(* Claims about CarDataset (SpecData).                                     *)

NRows == Len(dataset.labels)
InRange == 0 - NRows <= call.index /\ call.index < NRows
\* The row a position in range stands for.
RowAt == dataset.labels[IF call.index < 0 THEN NRows + call.index + 1
                        ELSE call.index + 1]
FilePresent == fs.root /\ fs.images /\ RowAt.image_filename \in fs.files
NoDigit(s) == \A i \in DOMAIN s : s[i] \notin Digits

\* C3 as stated: __getitem__ returns a sample only for 0 <= index < len.
C3_OnlyNonNegative ==
    (Called("__getitem__") /\ ret.status = "ok")
        => (0 <= call.index /\ call.index < NRows)

\* C3 amended: __getitem__ fails with IndexError for every index >= len and
\* every index < -len, index == len included; an index in [-len, 0) is in
\* range and stands for row len + index, so a sample is returned only for
\* -len <= index < len.
C3_IndexWraps ==
    Called("__getitem__") =>
        /\ ~InRange => ret.status = "IndexError" /\ heap = <<>>
        /\ ret.status = "ok" => InRange
        /\ (InRange /\ FilePresent /\ ~dataset.hasTransform)
            => /\ ret.status = "ok"
               /\ ret.image = FileImage(RowAt.image_filename)
               /\ heap[ret.label] = ParseLabel(RowAt.action)

C3_Witness ==
    /\ Called("__getitem__") /\ call.index = 0 - 1 /\ NRows = 2
    /\ dataset.labels[1].action # dataset.labels[2].action
    /\ ~dataset.hasTransform
    /\ ret.status = "ok"
    /\ heap[ret.label] = ParseLabel(dataset.labels[2].action)

\* C4 as stated: __getitem__ never returns an (image, label) pair whose
\* label is an empty field sequence.
C4_NeverEmptyLabel ==
    (Called("__getitem__") /\ ret.status = "ok") => heap[ret.label] # <<>>

\* C4 amended: for a row whose action string holds no numeric literal the
\* parser yields the empty field sequence and raises nothing; __getitem__
\* returns the image with that empty label unless a
\* RandomHorizontalFlipWithLabel of the pipeline fires, and then it fails
\* with the IndexError of reading label[2].
C4_NoLiteralEmptyLabel ==
    (Called("__getitem__") /\ InRange /\ FilePresent /\ NoDigit(RowAt.action))
        => IF dataset.hasTransform /\ SomeFlipFires
           THEN ret.status = "IndexError"
           ELSE ret.status = "ok" /\ heap[ret.label] = <<>>

C4_Witness ==
    /\ Called("__getitem__") /\ InRange /\ FilePresent
    /\ NoDigit(RowAt.action)
    /\ dataset.hasTransform /\ call.transformations = <<StreetColor>>
    /\ ret.status = "ok" /\ heap[ret.label] = <<>>

\* C5 as stated: whenever __getitem__ returns, the label has exactly 4
\* fields.
C5_FourFields ==
    (Called("__getitem__") /\ ret.status = "ok") => Len(heap[ret.label]) = 4

\* C5 amended: whenever __getitem__ returns, the label has as many fields
\* as the pattern finds literals in the row's action string, 4 only when
\* there are 4; no transform changes that number, and a call in which a
\* RandomHorizontalFlipWithLabel fired returns only labels of 4 or more.
C5_FieldsAsLiterals ==
    Called("__getitem__") =>
        /\ ret.status = "ok"
            => /\ Len(heap[ret.label]) = Len(FindAll(RowAt.action))
               /\ SomeFlipFires => Len(heap[ret.label]) >= 4
        /\ (InRange /\ FilePresent /\ ~SomeFlipFires) => ret.status = "ok"

C5_Witness ==
    /\ Called("__getitem__") /\ ret.status = "ok"
    /\ dataset.hasTransform /\ SomeFlipFires
    /\ Len(heap[ret.label]) = 5

\* C6 as stated: no CarDataset is produced when the root directory, the
\* images subdirectory or data_log.csv is missing.
C6_ConstructChecksAll ==
    (~fs.root \/ ~fs.images \/ ~fs.csv) => ~dataset.built

\* C6 amended: constructing CarDataset fails with a not-found error exactly
\* when data_log.csv is missing, which a missing root directory implies; a
\* missing images subdirectory does not fail the construction, and shows
\* only as the not-found error of the first __getitem__ in range.
C6_ConstructNeedsTable ==
    /\ Called("__init__") =>
        /\ ret.status = (IF fs.csv THEN "ok" ELSE "FileNotFoundError")
        /\ dataset.built <=> fs.csv
        /\ ~fs.root => ret.status = "FileNotFoundError"
        /\ dataset.built => dataset.labels = fs.rows
    /\ (Called("__getitem__") /\ InRange /\ ~fs.images)
        => ret.status = "FileNotFoundError"

C6_Witness ==
    /\ Called("__init__")
    /\ fs.csv /\ ~fs.images
    /\ dataset.built /\ NRows = MaxRows
    /\ ret.status = "ok"

===========================================================================
